---- MODULE Spec2Model ----
(***************************************************************************)
(* HelixClipsAPI (src/src/API/Helix/Clips/HelixClipsAPI.ts): the four clip *)
(* list operations and createClip, each an async method that shapes its    *)
(* parameters, makes one call to the shared HTTP dispatcher                *)
(* (this._client.apiCall), awaits the answer and maps it.                  *)
(*                                                                         *)
(* JavaScript objects are functions from key strings to values; a key that *)
(* is absent reads as Undefined.  Strings are TLA+ strings, arrays are     *)
(* sequences, booleans are BOOLEAN.                                        *)
(***************************************************************************)
EXTENDS Integers, Sequences, FiniteSets, TLC

\* ------------------------------------------------------------ bounds
NumInv  == 2      \* invocations that can be in flight at once
MaxIds  == 2      \* longest ids array a caller passes
MaxData == 2      \* longest data array the dispatcher answers with

\* ------------------------------------------------------------ values
\* The JavaScript value `undefined` (no string the model draws equals it).
Undefined == "$undefined"

\* The object literal {}.
Empty == [k \in {} |-> Undefined]

\* obj with property k written: a later write of the same key wins.
Put(obj, k, v) == [x \in (DOMAIN obj) \cup {k} |-> IF x = k THEN v ELSE obj[x]]

\* Reading a property: destructuring `const { k } = obj` or `obj.k`.
Get(obj, k) == IF k \in DOMAIN obj THEN obj[k] ELSE Undefined

\* Destructuring with a default: `const { k = d } = obj`.
GetOr(obj, k, d) == IF k \in DOMAIN obj THEN obj[k] ELSE d

\* Object spread `{ ...src }` into target: every own key of src is written.
Spread(target, src) ==
  [x \in (DOMAIN target) \cup (DOMAIN src) |-> IF x \in DOMAIN src THEN src[x] ELSE target[x]]

\* Boolean.prototype.toString
BoolToString(b) == IF b THEN "true" ELSE "false"

\* The sequences over S of length at most n.
SeqUpTo(S, n) == UNION {[1..m -> S] : m \in 0..n}

HelixClipFilterType == {"broadcaster_id", "game_id", "id"}

\* ------------------------------------------------------------ inputs
Procs   == 1..NumInv
Clients == {"clientA", "clientB"}
Ids     == {"u1", "u2"}
IdLists == SeqUpTo(Ids, MaxIds)

\* HelixPagination objects: each of after, before, limit given or not given
\* (after may also be written out as an explicit undefined).
PaginationObjs ==
  {[k \in S |-> CASE k = "after" -> a [] k = "before" -> "curB" [] OTHER -> "20"] :
      S \in SUBSET {"after", "before", "limit"}, a \in {"curA", Undefined}}

\* An object with a property named like each filter key.
StrayKeys == [t \in HelixClipFilterType |-> <<"stray">>]

\* Objects a caller can pass where a HelixPagination is expected: TypeScript
\* accepts an object with additional properties, so the argument may also
\* carry its own filterType and ids, or properties named like the filter keys.
StrayObjs ==
  {Empty, StrayKeys} \cup
  {Put(Put(Empty, "filterType", t), "ids", <<"stray">>) : t \in HelixClipFilterType}

PaginationArgs == {Spread(p, s) : p \in PaginationObjs, s \in StrayObjs}

\* HelixClipFilter objects passed to getClips directly.
FilterArgs ==
  {Put(Put(Spread(p, s), "filterType", t), "ids", l) :
      p \in PaginationObjs, s \in {Empty, StrayKeys},
      t \in HelixClipFilterType, l \in IdLists}

\* HelixClipCreateParams objects: createAfterDelay given or not given.
CreateArgs ==
  {Put(Empty, "channelId", c) : c \in Ids} \cup
  {Put(Put(Empty, "channelId", c), "createAfterDelay", b) : c \in Ids, b \in BOOLEAN}

\* What the dispatcher can answer.
ClipDatas    == {[id |-> "clip1", title |-> "t1"], [id |-> "clip2", title |-> "t2"]}
CreateDatas  == {[id |-> "new1", edit_url |-> "url1"], [id |-> "new2", edit_url |-> "url2"]}
\* HelixResponse<HelixClipData[]>; the cursor is absent on the last page.
ClipResponses ==
  {[data |-> d, pagination |-> p] :
      d \in SeqUpTo(ClipDatas, MaxData), p \in {Empty, Put(Empty, "cursor", "next")}}
\* The answer to the POST; the tuple type is not enforced at run time, so the
\* array can come back empty or longer than one.
CreateResponses == {[data |-> d] : d \in SeqUpTo(CreateDatas, MaxData)}
Errors == {"NetworkError", "HTTP429"}

\* ------------------------------------------------------------ state
VARIABLES
  pc,       \* pc[i]: where invocation i stands: "idle", "awaiting" (suspended at
            \* the await), "settled" (the dispatcher's promise has settled, the
            \* continuation has not run yet), "returned" or "threw"
  call,     \* call[i]: the method invoked, the instance's client and the arguments
  sent,     \* sent[i]: the calls invocation i has made to this._client.apiCall, in order
  answer,   \* answer[i]: how the dispatcher settled the promise of invocation i's call
  outcome   \* outcome[i]: what the invocation's promise resolved to or rejected with

vars == <<pc, call, sent, answer, outcome>>

NoCall    == [op |-> "none", client |-> Undefined, id |-> Undefined, ids |-> <<>>, obj |-> Empty]
NoAnswer  == [kind |-> "none", body |-> Empty, error |-> Undefined]
NoOutcome == [kind |-> "none", value |-> Undefined, error |-> Undefined]

Resolved(body) == [kind |-> "ok", body |-> body, error |-> Undefined]
Rejected(err)  == [kind |-> "err", body |-> Empty, error |-> err]
Returns(v)     == [kind |-> "value", value |-> v, error |-> Undefined]
Throws(e)      == [kind |-> "error", value |-> Undefined, error |-> e]

Init ==
  /\ pc = [i \in Procs |-> "idle"]
  /\ call = [i \in Procs |-> NoCall]
  /\ sent = [i \in Procs |-> <<>>]
  /\ answer = [i \in Procs |-> NoAnswer]
  /\ outcome = [i \in Procs |-> NoOutcome]

\* ------------------------------------------------------------ parameter shaping
\* Variant: the spread written last, { filterType: ..., ids: [id], ...pagination }.
getClipsForBroadcasterParamsSpreadLast(id, pagination) ==
  Spread(Put(Put(Empty, "filterType", "broadcaster_id"), "ids", <<id>>), pagination)

\* getClipsForBroadcaster: { ...pagination, filterType: 'broadcaster_id', ids: [id] }
getClipsForBroadcasterParams(id, pagination) ==
  Put(Put(Spread(Empty, pagination), "filterType", "broadcaster_id"), "ids", <<id>>)

\* getClipsForGame: { ...pagination, filterType: 'game_id', ids: [id] }
getClipsForGameParams(id, pagination) ==
  Put(Put(Spread(Empty, pagination), "filterType", "game_id"), "ids", <<id>>)

\* Variant: a default page size added, { filterType: 'id', ids, limit: '100' }.
getClipsByIdsParamsDefaultLimit(ids) ==
  Put(Put(Put(Empty, "filterType", "id"), "ids", ids), "limit", "100")

\* getClipsByIds: { filterType: 'id', ids }
getClipsByIdsParams(ids) ==
  Put(Put(Empty, "filterType", "id"), "ids", ids)

\* Variant: the parameters forwarded whole, { ...params, [filterType]: ids, ... }.
getClipsQuerySpreadsParams(params) ==
  Put(Put(Put(Put(Spread(Empty, params), Get(params, "filterType"), Get(params, "ids")),
                  "after", Get(params, "after")), "before", Get(params, "before")),
      "first", Get(params, "limit"))

\* Variant: the cursors crossed, { [filterType]: ids, after: before, before: after, ... }.
getClipsQuerySwapsCursors(params) ==
  Put(Put(Put(Put(Empty, Get(params, "filterType"), Get(params, "ids")),
              "after", Get(params, "before")), "before", Get(params, "after")),
      "first", Get(params, "limit"))

\* getClips: the query { [filterType]: ids, after, before, first: limit }
getClipsQuery(params) ==
  LET filterType == Get(params, "filterType")
      ids        == Get(params, "ids")
      after      == Get(params, "after")
      before     == Get(params, "before")
      limit      == Get(params, "limit")
  IN  Put(Put(Put(Put(Empty, filterType, ids), "after", after), "before", before),
          "first", limit)

\* getClips: the options object handed to apiCall
getClipsOptions(params) ==
  Put(Put(Put(Put(Empty, "type", "Helix"), "url", "clips"), "method", "GET"),
      "query", getClipsQuery(params))

\* Variant: the default of createAfterDelay flipped, `createAfterDelay = true`.
createClipQueryDelayDefaultTrue(params) ==
  Put(Put(Empty, "broadcaster_id", Get(params, "channelId")),
      "has_delay", BoolToString(GetOr(params, "createAfterDelay", TRUE)))

\* createClip: the query { broadcaster_id: channelId, has_delay: createAfterDelay.toString() }
createClipQuery(params) ==
  LET channelId        == Get(params, "channelId")
      createAfterDelay == GetOr(params, "createAfterDelay", FALSE)
  IN  Put(Put(Empty, "broadcaster_id", channelId), "has_delay", BoolToString(createAfterDelay))

\* createClip: the options object handed to apiCall
createClipOptions(params) ==
  Put(Put(Put(Put(Put(Empty, "type", "Helix"), "url", "clips"), "method", "POST"),
          "scope", "clips:edit"),
      "query", createClipQuery(params))

\* ------------------------------------------------------------ response mapping
\* new HelixClip(data, client): the record keeps the data and the client.
HelixClip(data, client) == [_data |-> data, _client |-> client]

\* Variant: the records collected newest first (unshift instead of map).
getClipsResultReversed(result, client) ==
  Returns([data   |-> [n \in 1..Len(result.data) |->
                         [_data |-> result.data[Len(result.data) + 1 - n], _client |-> client]],
           cursor |-> Get(result.pagination, "cursor")])

\* getClips: { data: result.data.map(...), cursor: result.pagination.cursor }
\* (reading a property of an undefined result.data or result.pagination throws
\* a TypeError, which rejects the async method's promise).
getClipsResult(result, client) ==
  LET wrap(data) == HelixClip(data, client)
      map(arr)   == [n \in 1..Len(arr) |-> wrap(arr[n])]
  IN  IF "data" \notin DOMAIN result \/ "pagination" \notin DOMAIN result
        THEN Throws("TypeError")
        ELSE Returns([data   |-> map(result.data),
                      cursor |-> Get(result.pagination, "cursor")])

\* Variant: the other field of the element, result.data[0].edit_url.
createClipResultEditUrl(result) ==
  IF Len(result.data) = 0
    THEN Throws("TypeError")
    ELSE Returns(result.data[1].edit_url)

\* Variant: optional chaining, result.data[0]?.id.
createClipResultOptional(result) ==
  IF Len(result.data) = 0
    THEN Returns(Undefined)
    ELSE Returns(result.data[1].id)

\* createClip: result.data[0].id; reading .id of the undefined result.data[0]
\* throws a TypeError, which rejects the async method's promise.
createClipResult(result) ==
  IF Len(result.data) = 0
    THEN Throws("TypeError")
    ELSE Returns(result.data[1].id)

\* Variant: the answer kept in a field of the instance shared by all
\* invocations, so a continuation reads the answer that arrived for the
\* lowest-numbered invocation answered so far.
AwaitedShared(i) ==
  answer[CHOOSE j \in Procs :
           /\ answer[j].kind # "none"
           /\ \A k \in Procs : answer[k].kind # "none" => j <= k]

\* `const result = await ...`: the settled value of the promise this very
\* invocation awaited.
Awaited(i) == answer[i]

\* ------------------------------------------------------------ the steps
\* The synchronous part of an invocation, up to the await: the arguments are
\* shaped and apiCall is called once, on the instance's client.
StartCall(i, c, options) ==
  /\ pc[i] = "idle"
  /\ pc' = [pc EXCEPT ![i] = "awaiting"]
  /\ call' = [call EXCEPT ![i] = c]
  /\ sent' = [sent EXCEPT ![i] = Append(@, [client |-> c.client, options |-> options])]
  /\ UNCHANGED <<answer, outcome>>

getClipsForBroadcaster(i, client, id, pagination) ==
  StartCall(i, [op |-> "getClipsForBroadcaster", client |-> client, id |-> id,
                ids |-> <<>>, obj |-> pagination],
            getClipsOptions(getClipsForBroadcasterParams(id, pagination)))

getClipsForGame(i, client, id, pagination) ==
  StartCall(i, [op |-> "getClipsForGame", client |-> client, id |-> id,
                ids |-> <<>>, obj |-> pagination],
            getClipsOptions(getClipsForGameParams(id, pagination)))

getClipsByIds(i, client, ids) ==
  StartCall(i, [op |-> "getClipsByIds", client |-> client, id |-> Undefined,
                ids |-> ids, obj |-> Empty],
            getClipsOptions(getClipsByIdsParams(ids)))

getClips(i, client, params) ==
  StartCall(i, [op |-> "getClips", client |-> client, id |-> Undefined,
                ids |-> <<>>, obj |-> params],
            getClipsOptions(params))

createClip(i, client, params) ==
  StartCall(i, [op |-> "createClip", client |-> client, id |-> Undefined,
                ids |-> <<>>, obj |-> params],
            createClipOptions(params))

ListOps == {"getClipsForBroadcaster", "getClipsForGame", "getClipsByIds", "getClips"}

\* The dispatcher settles the promise of invocation i's call.
apiCallSettles(i, a) ==
  /\ pc[i] = "awaiting"
  /\ pc' = [pc EXCEPT ![i] = "settled"]
  /\ answer' = [answer EXCEPT ![i] = a]
  /\ UNCHANGED <<call, sent, outcome>>

\* Variant: a failed call is made once more before the error is given up on.
getClipsResumeRetry(i) ==
  /\ pc[i] = "settled"
  /\ call[i].op \in ListOps
  /\ IF answer[i].kind = "err" /\ Len(sent[i]) < 2
       THEN /\ sent' = [sent EXCEPT ![i] = Append(@, sent[i][1])]
            /\ pc' = [pc EXCEPT ![i] = "awaiting"]
            /\ UNCHANGED <<call, answer, outcome>>
       ELSE LET result == Awaited(i)
                out    == IF result.kind = "err" THEN Throws(result.error)
                          ELSE getClipsResult(result.body, call[i].client)
            IN  /\ outcome' = [outcome EXCEPT ![i] = out]
                /\ pc' = [pc EXCEPT ![i] = IF out.kind = "value" THEN "returned" ELSE "threw"]
                /\ UNCHANGED <<call, sent, answer>>

\* The continuation of getClips after the await.  A rejected await rethrows
\* the dispatcher's error out of the method; there is no try/catch.
getClipsResume(i) ==
  /\ pc[i] = "settled"
  /\ call[i].op \in ListOps
  /\ LET result == Awaited(i)
         out    == IF result.kind = "err" THEN Throws(result.error)
                   ELSE getClipsResult(result.body, call[i].client)
     IN  /\ outcome' = [outcome EXCEPT ![i] = out]
         /\ pc' = [pc EXCEPT ![i] = IF out.kind = "value" THEN "returned" ELSE "threw"]
  /\ UNCHANGED <<call, sent, answer>>

\* The continuation of createClip after the await.
createClipResume(i) ==
  /\ pc[i] = "settled"
  /\ call[i].op = "createClip"
  /\ LET result == Awaited(i)
         out    == IF result.kind = "err" THEN Throws(result.error)
                   ELSE createClipResult(result.body)
     IN  /\ outcome' = [outcome EXCEPT ![i] = out]
         /\ pc' = [pc EXCEPT ![i] = IF out.kind = "value" THEN "returned" ELSE "threw"]
  /\ UNCHANGED <<call, sent, answer>>


\* ------------------------------------------------------------ Spec
\* One invocation, every shape of argument; the list answers are kept short
\* here (SpecAnswer draws them all).
Solo == CHOOSE i \in Procs : \A j \in Procs : i <= j

ShortClipResponses == {r \in ClipResponses : Len(r.data) = 0}

CallGetClipsForBroadcaster ==
  \E c \in Clients, id \in Ids, p \in PaginationArgs : getClipsForBroadcaster(Solo, c, id, p)
CallGetClipsForGame ==
  \E c \in Clients, id \in Ids, p \in PaginationArgs : getClipsForGame(Solo, c, id, p)
CallGetClipsByIds ==
  \E c \in Clients, ids \in IdLists : getClipsByIds(Solo, c, ids)
CallGetClips ==
  \E c \in Clients, p \in FilterArgs : getClips(Solo, c, p)
CallCreateClip ==
  \E c \in Clients, p \in CreateArgs : createClip(Solo, c, p)
DispatcherAnswersGet ==
  /\ call[Solo].op \in ListOps
  /\ \E r \in ShortClipResponses : apiCallSettles(Solo, Resolved(r))
DispatcherAnswersPost ==
  /\ call[Solo].op = "createClip"
  /\ \E r \in CreateResponses : apiCallSettles(Solo, Resolved(r))
DispatcherFails ==
  \E e \in Errors : apiCallSettles(Solo, Rejected(e))
ResumeGetClips == getClipsResume(Solo)
ResumeCreateClip == createClipResume(Solo)

Next ==
  \/ CallGetClipsForBroadcaster
  \/ CallGetClipsForGame
  \/ CallGetClipsByIds
  \/ CallGetClips
  \/ CallCreateClip
  \/ DispatcherAnswersGet
  \/ DispatcherAnswersPost
  \/ DispatcherFails
  \/ ResumeGetClips
  \/ ResumeCreateClip

Spec == Init /\ [][Next]_vars

\* ------------------------------------------------------------ SpecAnswer
\* One list invocation through any of the four entry points, every answer.
AnswerPagination == [after |-> "curA", limit |-> "20"]

ListCall ==
  \E c \in Clients, id \in Ids :
    \/ getClipsForBroadcaster(Solo, c, id, AnswerPagination)
    \/ getClipsForGame(Solo, c, id, AnswerPagination)
    \/ getClipsByIds(Solo, c, <<id>>)
    \/ getClips(Solo, c, Put(Put(AnswerPagination, "filterType", "id"), "ids", <<id>>))
ListAnswered == \E r \in ClipResponses : apiCallSettles(Solo, Resolved(r))
ListFailed   == \E e \in Errors : apiCallSettles(Solo, Rejected(e))
ListResumed  == getClipsResume(Solo)

NextAnswer == ListCall \/ ListAnswered \/ ListFailed \/ ListResumed

SpecAnswer == Init /\ [][NextAnswer]_vars

\* ------------------------------------------------------------ SpecConc
\* NumInv invocations in flight at once, on two instances; the dispatcher
\* settles their promises in any order and the continuations run in any order.
ConcFilterArgs ==
  {[filterType |-> "broadcaster_id", ids |-> <<"u1">>, after |-> "curA"],
   [filterType |-> "id", ids |-> <<"u2", "u1">>]}
ConcCreateArgs ==
  {[channelId |-> "u1"], [channelId |-> "u2", createAfterDelay |-> TRUE]}
ConcClipResponses ==
  {[data |-> <<[id |-> "clip1", title |-> "t1"]>>, pagination |-> [cursor |-> "next"]],
   [data |-> <<[id |-> "clip2", title |-> "t2"]>>, pagination |-> Empty]}
ConcCreateResponses ==
  {[data |-> <<[id |-> "new1", edit_url |-> "url1"]>>],
   [data |-> <<[id |-> "new2", edit_url |-> "url2"]>>]}
\* The instance an invocation runs on: the instances were built on different clients.
ClientOf(i) == IF i = Solo THEN "clientA" ELSE "clientB"

ConcGetClips ==
  \E i \in Procs, p \in ConcFilterArgs : getClips(i, ClientOf(i), p)
ConcCreateClip ==
  \E i \in Procs, p \in ConcCreateArgs : createClip(i, ClientOf(i), p)
ConcAnswersGet ==
  \E i \in Procs, r \in ConcClipResponses :
    call[i].op \in ListOps /\ apiCallSettles(i, Resolved(r))
ConcAnswersPost ==
  \E i \in Procs, r \in ConcCreateResponses :
    call[i].op = "createClip" /\ apiCallSettles(i, Resolved(r))
ConcFails ==
  \E i \in Procs : apiCallSettles(i, Rejected("NetworkError"))
ConcResumeGetClips == \E i \in Procs : getClipsResume(i)
ConcResumeCreateClip == \E i \in Procs : createClipResume(i)

NextConc ==
  \/ ConcGetClips
  \/ ConcCreateClip
  \/ ConcAnswersGet
  \/ ConcAnswersPost
  \/ ConcFails
  \/ ConcResumeGetClips
  \/ ConcResumeCreateClip

SpecConc == Init /\ [][NextConc]_vars

\* ------------------------------------------------------------ properties
Started(i)  == pc[i] # "idle"
Finished(i) == pc[i] \in {"returned", "threw"}
\* The options and the query of the first call invocation i made to apiCall.
OptionsOf(i) == sent[i][1].options
QueryOf(i)   == OptionsOf(i)["query"]
\* The filter keys present in a query object.
FilterKeysIn(q) == (DOMAIN q) \cap HelixClipFilterType

\* C1: getClipsForBroadcaster(id, pagination) sends the filter key
\* 'broadcaster_id' with value [id], getClipsForGame(id, pagination) sends
\* 'game_id' with value [id], and getClipsByIds(ids) sends 'id' with value ids
\* (same elements, same order), whatever the pagination argument carries: none
\* of its fields replaces the filter key or the id list.
C1_WrappersFixFilter ==
  \A i \in Procs : Started(i) =>
    /\ call[i].op = "getClipsForBroadcaster" =>
         /\ FilterKeysIn(QueryOf(i)) = {"broadcaster_id"}
         /\ QueryOf(i)["broadcaster_id"] = <<call[i].id>>
    /\ call[i].op = "getClipsForGame" =>
         /\ FilterKeysIn(QueryOf(i)) = {"game_id"}
         /\ QueryOf(i)["game_id"] = <<call[i].id>>
    /\ call[i].op = "getClipsByIds" =>
         /\ FilterKeysIn(QueryOf(i)) = {"id"}
         /\ QueryOf(i)["id"] = call[i].ids

\* C1 witness: getClipsForBroadcaster was called with a pagination argument that
\* carries a filterType and an ids of its own.
C1_Witness ==
  /\ Started(Solo)
  /\ call[Solo].op = "getClipsForBroadcaster"
  /\ {"filterType", "ids"} \subseteq DOMAIN call[Solo].obj
  /\ call[Solo].obj["filterType"] = "game_id"

\* The filterType an invocation's getClips call runs with: the one its wrapper
\* fixes, or the one the caller of getClips gave.
FilterTypeOf(i) ==
  CASE call[i].op = "getClipsForBroadcaster" -> "broadcaster_id"
    [] call[i].op = "getClipsForGame"        -> "game_id"
    [] call[i].op = "getClipsByIds"          -> "id"
    [] OTHER                                 -> call[i].obj["filterType"]

\* C2: every request getClips sends, whichever of the four list operations was
\* the entry point, has exactly one of the keys 'broadcaster_id', 'game_id',
\* 'id' in its query: the one filterType names; the other two are absent.
C2_ExactlyOneFilterKey ==
  \A i \in Procs : (Started(i) /\ call[i].op \in ListOps) =>
    \A n \in 1..Len(sent[i]) :
      /\ Cardinality(FilterKeysIn(sent[i][n].options["query"])) = 1
      /\ FilterTypeOf(i) \in DOMAIN sent[i][n].options["query"]
      /\ \A k \in HelixClipFilterType \ {FilterTypeOf(i)} :
           k \notin DOMAIN sent[i][n].options["query"]

\* C2 witness: getClips was called directly with filterType 'game_id' and
\* parameters that also carry properties named like every filter key.
C2_Witness ==
  /\ Started(Solo)
  /\ call[Solo].op = "getClips"
  /\ call[Solo].obj["filterType"] = "game_id"
  /\ HelixClipFilterType \subseteq DOMAIN call[Solo].obj

\* C3: for getClips, getClipsForBroadcaster and getClipsForGame the query's
\* 'after', 'before' and 'first' equal the after, before and limit the caller
\* gave, and a parameter the caller did not give has no value in the query.
C3_PaginationPassesThrough ==
  \A i \in Procs :
    (Started(i) /\ call[i].op \in {"getClips", "getClipsForBroadcaster", "getClipsForGame"}) =>
      /\ IF "after" \in DOMAIN call[i].obj /\ call[i].obj["after"] # Undefined
           THEN "after" \in DOMAIN QueryOf(i) /\ QueryOf(i)["after"] = call[i].obj["after"]
           ELSE Get(QueryOf(i), "after") = Undefined
      /\ IF "before" \in DOMAIN call[i].obj
           THEN "before" \in DOMAIN QueryOf(i) /\ QueryOf(i)["before"] = call[i].obj["before"]
           ELSE Get(QueryOf(i), "before") = Undefined
      /\ IF "limit" \in DOMAIN call[i].obj
           THEN "first" \in DOMAIN QueryOf(i) /\ QueryOf(i)["first"] = call[i].obj["limit"]
           ELSE Get(QueryOf(i), "first") = Undefined

\* C3 witness: getClipsForGame was called with after and limit given, before not.
C3_Witness ==
  /\ Started(Solo)
  /\ call[Solo].op = "getClipsForGame"
  /\ (DOMAIN call[Solo].obj) \cap {"after", "before", "limit"} = {"after", "limit"}

\* C4: when the dispatcher answers createClip with a single-element data
\* array, createClip returns exactly the id of that element.
C4_CreateReturnsFirstId ==
  \A i \in Procs :
    (/\ Finished(i)
     /\ call[i].op = "createClip"
     /\ answer[i].kind = "ok"
     /\ Len(answer[i].body.data) = 1) =>
       /\ pc[i] = "returned"
       /\ outcome[i].kind = "value"
       /\ outcome[i].value = answer[i].body.data[1].id
       /\ outcome[i].value # answer[i].body.data[1].edit_url

\* C4 witness: createClip returned after a single-element answer.
C4_Witness ==
  /\ pc[Solo] = "returned"
  /\ call[Solo].op = "createClip"
  /\ Len(answer[Solo].body.data) = 1

\* C5: the data list getClips returns has the length and order of the
\* response's data array, its n-th record holds the n-th response element
\* unchanged together with the calling client, and the returned cursor is the
\* response's pagination cursor.
C5_ResultMirrorsResponse ==
  \A i \in Procs :
    (Finished(i) /\ call[i].op \in ListOps /\ answer[i].kind = "ok") =>
      /\ pc[i] = "returned"
      /\ outcome[i].kind = "value"
      /\ Len(outcome[i].value.data) = Len(answer[i].body.data)
      /\ \A n \in 1..Len(answer[i].body.data) :
           /\ outcome[i].value.data[n]._data = answer[i].body.data[n]
           /\ outcome[i].value.data[n]._client = call[i].client
      /\ outcome[i].value.cursor =
           (IF "cursor" \in DOMAIN answer[i].body.pagination
              THEN answer[i].body.pagination["cursor"] ELSE Undefined)

\* C5 witness: a list operation returned after an answer of two different
\* elements and a cursor.
C5_Witness ==
  /\ pc[Solo] = "returned"
  /\ call[Solo].op \in ListOps
  /\ Len(answer[Solo].body.data) = 2
  /\ answer[Solo].body.data[1] # answer[Solo].body.data[2]
  /\ "cursor" \in DOMAIN answer[Solo].body.pagination

\* C6: every invocation of getClips or createClip makes exactly one call to the
\* dispatcher, a GET on 'clips' for getClips and a POST on 'clips' for
\* createClip; when that call fails the operation fails with the very error
\* the dispatcher surfaced, makes no second call and returns no value.
C6_OneCallErrorsSurface ==
  \A i \in Procs : Started(i) =>
    /\ Len(sent[i]) = 1
    /\ OptionsOf(i)["url"] = "clips"
    /\ OptionsOf(i)["method"] = (IF call[i].op = "createClip" THEN "POST" ELSE "GET")
    /\ (answer[i].kind = "err" /\ pc[i] # "settled") =>
         /\ pc[i] = "threw"
         /\ outcome[i].kind = "error"
         /\ outcome[i].error = answer[i].error

\* C6 witness: an invocation failed after the dispatcher rejected its call.
C6_Witness ==
  /\ pc[Solo] = "threw"
  /\ answer[Solo].kind = "err"
  /\ answer[Solo].error = "HTTP429"

\* C7: with several getClips and createClip invocations in flight and the
\* dispatcher answering in any order, each invocation's request is built from
\* its own parameters on its own client, and each invocation's result from the
\* answer to its own request.
C7_InvocationsIndependent ==
  \A i \in Procs : Started(i) =>
    /\ Len(sent[i]) = 1
    /\ sent[i][1].client = call[i].client
    /\ call[i].op = "getClips" =>
         /\ OptionsOf(i)["method"] = "GET"
         /\ FilterKeysIn(QueryOf(i)) = {call[i].obj["filterType"]}
         /\ QueryOf(i)[call[i].obj["filterType"]] = call[i].obj["ids"]
         /\ QueryOf(i)["after"] =
              (IF "after" \in DOMAIN call[i].obj THEN call[i].obj["after"] ELSE Undefined)
    /\ call[i].op = "createClip" =>
         /\ OptionsOf(i)["method"] = "POST"
         /\ QueryOf(i)["broadcaster_id"] = call[i].obj["channelId"]
    /\ Finished(i) =>
         /\ answer[i].kind = "err" =>
              outcome[i].kind = "error" /\ outcome[i].error = answer[i].error
         /\ answer[i].kind = "ok" =>
              /\ outcome[i].kind = "value"
              /\ call[i].op = "createClip" =>
                   outcome[i].value = answer[i].body.data[1].id
              /\ call[i].op = "getClips" =>
                   /\ Len(outcome[i].value.data) = Len(answer[i].body.data)
                   /\ \A n \in 1..Len(answer[i].body.data) :
                        /\ outcome[i].value.data[n]._data = answer[i].body.data[n]
                        /\ outcome[i].value.data[n]._client = call[i].client
                   /\ outcome[i].value.cursor =
                        (IF "cursor" \in DOMAIN answer[i].body.pagination
                           THEN answer[i].body.pagination["cursor"] ELSE Undefined)

\* C7 witness: two invocations with different parameters were in flight
\* together; the later-numbered one has already returned on its answer while
\* the other, answered differently, has its answer but has not resumed yet.
C7_Witness ==
  \E i, j \in Procs :
    /\ i < j
    /\ pc[i] = "settled" /\ pc[j] = "returned"
    /\ call[i].op = call[j].op
    /\ call[i].obj # call[j].obj
    /\ answer[i].kind = "ok" /\ answer[j].kind = "ok"
    /\ answer[i].body # answer[j].body

\* C8: createClip sends a POST on 'clips' with scope 'clips:edit' whose query
\* has 'broadcaster_id' equal to the given channelId and 'has_delay' equal to
\* 'true' when createAfterDelay is true and to 'false' when it is false or not
\* given; has_delay is always present.
C8_CreateRequestShape ==
  \A i \in Procs : (Started(i) /\ call[i].op = "createClip") =>
    /\ OptionsOf(i)["method"] = "POST"
    /\ OptionsOf(i)["url"] = "clips"
    /\ "scope" \in DOMAIN OptionsOf(i)
    /\ OptionsOf(i)["scope"] = "clips:edit"
    /\ QueryOf(i)["broadcaster_id"] = call[i].obj["channelId"]
    /\ "has_delay" \in DOMAIN QueryOf(i)
    /\ IF "createAfterDelay" \in DOMAIN call[i].obj /\ call[i].obj["createAfterDelay"]
         THEN QueryOf(i)["has_delay"] = "true"
         ELSE QueryOf(i)["has_delay"] = "false"

\* C8 witness: createClip was called without createAfterDelay.
C8_Witness ==
  /\ Started(Solo)
  /\ call[Solo].op = "createClip"
  /\ "createAfterDelay" \notin DOMAIN call[Solo].obj

\* C9: when the dispatcher answers createClip successfully with an empty data
\* array, createClip ends in an error; it never returns from such an answer.
C9_EmptyAnswerIsAnError ==
  \A i \in Procs :
    (/\ Finished(i)
     /\ call[i].op = "createClip"
     /\ answer[i].kind = "ok"
     /\ Len(answer[i].body.data) = 0) =>
       /\ pc[i] = "threw"
       /\ outcome[i].kind = "error"

\* C9 witness: createClip threw after a successful answer with an empty data array.
C9_Witness ==
  /\ pc[Solo] = "threw"
  /\ call[Solo].op = "createClip"
  /\ answer[Solo].kind = "ok"
  /\ answer[Solo].body.data = <<>>

\* C10: a request sent by getClipsByIds carries no pagination: 'after',
\* 'before' and 'first' have no value in its query, for every list of ids; for
\* the empty list too, 'id' is the one filter key of the query.
C10_ByIdsNoPagination ==
  \A i \in Procs : (Started(i) /\ call[i].op = "getClipsByIds") =>
    /\ \A k \in {"after", "before", "first"} : Get(QueryOf(i), k) = Undefined
    /\ FilterKeysIn(QueryOf(i)) = {"id"}
    /\ QueryOf(i)["id"] = call[i].ids

\* C10 witness: getClipsByIds was called with the empty list.
C10_Witness ==
  /\ Started(Solo)
  /\ call[Solo].op = "getClipsByIds"
  /\ call[Solo].ids = <<>>

====
